---------------------------- MODULE Spec2Model ----------------------------
(***************************************************************************)
(* A model of r.random.walk (src/random_walk.py): random_walk and the      *)
(* helpers it calls.  One walk is one behaviour.  Every value returned by  *)
(* the random generator (random.randint, random.choice) is a               *)
(* nondeterministic choice.                                                *)
(*                                                                         *)
(* random_walk is handed a raster (walk_output) and a boundary.  A caller   *)
(* that reads boundary as the largest row and column index hands a raster  *)
(* of (boundary[0] + 1) x (boundary[1] + 1) cells; main hands the numbers  *)
(* of rows and columns of the region, so its raster has boundary[0] x      *)
(* boundary[1] cells.  The raster object does not check the indices it is  *)
(* given, so a get or put at a position the raster does not have has no    *)
(* defined result: the model lets every such access either fail (the walk  *)
(* ends in "Error") or reach storage outside the raster.  What that        *)
(* storage holds was there before the walk began and is arbitrary: it is   *)
(* part of the initial state (outside), and a cell of it changes only when *)
(* the walk writes to it.                                                  *)
(***************************************************************************)
EXTENDS Integers, FiniteSets, Sequences, TLC

VARIABLES
    num_directions,     \* parameter of random_walk
    boundary,           \* parameter of random_walk: <<max_row, max_col>>
    steps,              \* parameter of random_walk
    revisit,            \* parameter of random_walk
    walk_output,        \* the raster: position -> cell value
    pc,                 \* where random_walk stands
    step,               \* the loop variable of "for step in range(steps + 1)"
    start_pos,          \* local of random_walk
    current_pos,        \* local of random_walk
    new_position,       \* local of random_walk / find_new_path
    tested_directions,  \* local of find_new_path
    error,              \* the exception that ended the walk, "" if none
    outside,            \* what the storage outside the raster held on entry
    entry_grid,         \* history: the raster as handed to random_walk
    iter_grid,          \* history: the raster when the current iteration began
    commits,            \* history: position -> number of visits committed there
    last_commit,        \* history: the position of the latest commit
    iter_log            \* history: the draws of the current iteration

vars == <<num_directions, boundary, steps, revisit, walk_output, pc, step,
          start_pos, current_pos, new_position, tested_directions, error,
          outside, entry_grid, iter_grid, commits, last_commit, iter_log>>

-----------------------------------------------------------------------------
(* Bounds of the model *)

MaxExtent == 1      \* boundary[0] and boundary[1] range over 0..MaxExtent
MaxSteps == 2       \* steps ranges over -1..MaxSteps

-----------------------------------------------------------------------------
(* Values *)

None == [position |-> <<>>, direction |-> -1]
NoPos == <<>>

Cells(region) == (0..region[1]) \X (0..region[2])

\* take_step, lines 112-135: the offset of each direction
Delta(direction) ==
    CASE direction = 0 -> <<1, 0>>
      [] direction = 1 -> <<0, 1>>
      [] direction = 2 -> <<-1, 0>>
      [] direction = 3 -> <<0, -1>>
      [] direction = 4 -> <<1, 1>>
      [] direction = 5 -> <<-1, 1>>
      [] direction = 6 -> <<-1, -1>>
      [] direction = 7 -> <<1, -1>>

\* A faulty selection: the black list is ignored.
Selectable_all(num_dir, black_list) == 0..(num_dir - 1)

\* take_step, line 105: the list random.choice draws from
Selectable(num_dir, black_list) ==
    {ele \in 0..(num_dir - 1) : ele \notin black_list}

\* take_step, lines 107-139, for the direction random.choice returned
take_step(current_position, direction) ==
    [position  |-> <<current_position[1] + Delta(direction)[1],
                     current_position[2] + Delta(direction)[2]>>,
     direction |-> direction]

\* What the storage outside the raster holds: unvisited cells (0)
\* throughout, visited cells (1) throughout, or the two in turn, cell by cell.
OutsidePatterns == {"zeros", "ones", "chequered"}

Content(pattern, position) ==
    CASE pattern = "zeros"     -> 0
      [] pattern = "ones"      -> 1
      [] pattern = "chequered" ->
            IF (position[1] + position[2]) % 2 = 0 THEN 1 ELSE 0

\* rast.get(row, col) and rast[row, col], for an access that does not fail:
\* the value of the cell, or what the storage outside the raster holds there.
get(rast, position) ==
    IF position \in DOMAIN rast
    THEN rast[position]
    ELSE Content(outside, position)

\* A faulty cell_visited: the threshold is one visit too high, so a cell the
\* walk has visited once (1) counts as unvisited.
cell_visited_above_one(rast, position) == get(rast, position) > 1

\* A faulty cell_visited: an unvisited cell (0) counts as visited too.
cell_visited_from_zero(rast, position) == get(rast, position) >= 0

\* cell_visited: positions with a value greater than zero are visited
cell_visited(rast, position) == get(rast, position) > 0

\* A faulty walker_is_stuck: the comparison is off by one and never true.
walker_is_stuck_beyond(tested, num_dirs) == Cardinality(tested) > num_dirs

\* A faulty walker_is_stuck: the number of directions is taken to be 8.
walker_is_stuck_of_eight(tested, num_dirs) == Cardinality(tested) = 8

\* walker_is_stuck.  tested_directions is kept as a set: the code uses the
\* list only through "in" and len, and never appends a direction twice.
walker_is_stuck(tested, num_dirs) == Cardinality(tested) = num_dirs

\* A faulty avoid_boundary: the lists of the two row tests are swapped.
avoid_boundary_swapped(position, bound) ==
    LET brows == bound[1]
        bcols == bound[2]
        prow  == position.position[1]
        pcol  == position.position[2]
    IN  {position.direction}
          \cup (IF prow > brows THEN {2, 5, 6} ELSE {})
          \cup (IF prow < 0     THEN {0, 4, 7} ELSE {})
          \cup (IF pcol > bcols THEN {1, 4, 5} ELSE {})
          \cup (IF pcol < 0     THEN {3, 6, 7} ELSE {})

\* avoid_boundary.  The returned list is used only through "in".
avoid_boundary(position, bound) ==
    LET brows == bound[1]
        bcols == bound[2]
        prow  == position.position[1]
        pcol  == position.position[2]
    IN  {position.direction}
          \cup (IF prow > brows THEN {0, 4, 7} ELSE {})
          \cup (IF prow < 0     THEN {2, 5, 6} ELSE {})
          \cup (IF pcol > bcols THEN {1, 4, 5} ELSE {})
          \cup (IF pcol < 0     THEN {3, 6, 7} ELSE {})

\* out_of_bounds
out_of_bounds(position, region) ==
    LET brows == region[1]
        bcols == region[2]
        prow  == position[1]
        pcol  == position[2]
    IN  prow > brows \/ prow < 0 \/ pcol > bcols \/ pcol < 0

\* starting_position: random.randint(0, n) is inclusive at both ends
starting_position(surface_rows, surface_columns) ==
    (0..surface_rows) \X (0..surface_columns)

-----------------------------------------------------------------------------
(* The raster *)

\* Whether an access of rast at position goes through: at a cell of the
\* raster, or of the storage the walk has written, it does; elsewhere it
\* either does or fails.
Access(rast, position) ==
    IF position \in DOMAIN rast THEN {TRUE} ELSE {TRUE, FALSE}

\* walk_output.put(row, col, value) and walk_output[row, col] = value, for
\* an access that does not fail
Put(rast, position, value) ==
    IF position \in DOMAIN rast
    THEN [rast EXCEPT ![position] = value]
    ELSE rast @@ (position :> value)

\* A faulty stuck marking: the rejected attempt is marked, not the walker.
StuckCell_attempt(current, attempt) == attempt.position

\* random_walk, line 269: the cell marked when the walker is stuck
StuckCell(current, attempt) == current

\* A faulty commit: the cell is marked visited, not counted.
Visited_once(value) == 1

\* random_walk, lines 256-262: the value written at the resolved position
Visited(value) == value + 1

\* random_walk, line 241: the loop runs while step is in range(steps + 1)
InRange(i, n) == i < n + 1

\* The draws of one iteration: the directions take_step returned, how many
\* times it was called, and how many attempts find_new_path looked up.
EmptyLog == [attempted |-> {}, draws |-> 0, examined |-> 0]

Drawn(log, direction) ==
    [log EXCEPT !.attempted = @ \cup {direction}, !.draws = @ + 1]

Examined(log) == [log EXCEPT !.examined = @ + 1]

\* The log is kept while an attempt is being resolved; it is dropped once the
\* iteration has the attempt it commits.
Resolved(next_pc, log) == IF next_pc = "commit" THEN EmptyLog ELSE log

AddCommit(bag, position) ==
    IF position \in DOMAIN bag
    THEN [bag EXCEPT ![position] = @ + 1]
    ELSE bag @@ (position :> 1)

-----------------------------------------------------------------------------
(* Inputs *)

NumDirChoices == {4, 5, 8}

\* The raster handed in: all zero, every cell already marked visited, or
\* (for walks that may not revisit) every cell but the middle one marked.
Marked(region, hole) == [p \in Cells(region) |-> IF p \in hole THEN 0 ELSE 1]

Middle(region) == <<region[1] \div 2, region[2] \div 2>>

EntryGrids(region, may_revisit) ==
    {Marked(region, Cells(region)), Marked(region, {})}
      \cup (IF may_revisit THEN {} ELSE {Marked(region, {Middle(region)})})

\* The boundary handed to random_walk: every pair up to MaxExtent, and
\* <<2, 2>>, the boundary of the specification's saturated-neighbourhood
\* scenarios on a raster of 3 x 3 cells.
Extents == ((0..MaxExtent) \X (0..MaxExtent)) \cup {<<2, 2>>}

\* The raster that comes with a boundary: rows and columns 0..boundary (the
\* boundary is the largest index), or, as main calls random_walk, rows and
\* columns 0..boundary - 1 (the boundary is the number of rows and columns).
\* A region as the largest indices of its raster.
RasterRegions(bound) ==
    {bound} \cup (IF bound[1] >= 1 /\ bound[2] >= 1
                  THEN {<<bound[1] - 1, bound[2] - 1>>} ELSE {})

Configs ==
    [num_directions : NumDirChoices,
     boundary       : Extents,
     steps          : (-1)..MaxSteps,
     revisit        : BOOLEAN]

Init ==
    \E cfg \in Configs :
      \E region \in RasterRegions(cfg.boundary) :
      \E g \in EntryGrids(region, cfg.revisit) :
        /\ num_directions = cfg.num_directions
        /\ boundary = cfg.boundary
        /\ steps = cfg.steps
        /\ revisit = cfg.revisit
        /\ walk_output = g
        /\ entry_grid = g
        /\ iter_grid = g
        /\ pc = "NotStarted"
        /\ step = 0
        /\ start_pos = NoPos
        /\ current_pos = NoPos
        /\ new_position = None
        /\ tested_directions = {}
        /\ error = ""
        /\ outside \in OutsidePatterns
        /\ commits = <<>>
        /\ last_commit = NoPos
        /\ iter_log = EmptyLog

-----------------------------------------------------------------------------
(* random_walk *)

Config == <<num_directions, boundary, steps, revisit, entry_grid, outside>>

\* An exception nobody catches ends random_walk: its locals are gone, the
\* raster stays as it is.
Raise(name) ==
    /\ pc' = "Error"
    /\ error' = name
    /\ new_position' = None
    /\ tested_directions' = {}
    /\ iter_log' = EmptyLog

\* Where the iteration goes once an attempt is in hand (lines 250-256).
AfterAttempt == IF revisit THEN "commit" ELSE "find_new_path"

\* Lines 235-239: pick the start cell, seed it with 2.
Start ==
    /\ pc = "NotStarted"
    /\ \E p \in starting_position(boundary[1], boundary[2]) :
       \E ok \in Access(walk_output, p) :
         IF ~ok
         THEN /\ Raise("OutOfExtent")
              /\ UNCHANGED <<walk_output, iter_grid, commits, last_commit,
                             start_pos, current_pos, step>>
         ELSE /\ start_pos' = p
              /\ walk_output' = Put(walk_output, p, 2)
              /\ iter_grid' = Put(walk_output, p, 2)
              /\ commits' = AddCommit(commits, p)
              /\ last_commit' = p
              /\ current_pos' = p
              /\ pc' = "for"
              /\ step' = 0
              /\ UNCHANGED <<new_position, tested_directions, error,
                             iter_log>>
    /\ UNCHANGED Config

\* Lines 241-244: the next iteration begins with an unconstrained attempt.
TakeStep ==
    /\ pc = "for"
    /\ InRange(step, steps)
    /\ iter_grid' = walk_output
    /\ IF num_directions \notin {4, 8}
       THEN Raise("ValueError")
       ELSE /\ \E direction \in Selectable(num_directions, {}) :
                 /\ new_position' = take_step(current_pos, direction)
                 /\ pc' = IF out_of_bounds(new_position'.position, boundary)
                          THEN "redraw" ELSE AfterAttempt
                 /\ iter_log' = Resolved(pc', Drawn(EmptyLog, direction))
            /\ UNCHANGED <<error, tested_directions>>
    /\ UNCHANGED <<Config, walk_output, step, start_pos, current_pos,
                   commits, last_commit>>

\* Lines 245-248: one re-draw that avoids the directions of avoid_boundary.
Redraw ==
    /\ pc = "redraw"
    /\ LET avoid_directions == avoid_boundary(new_position, boundary)
           choices == Selectable(num_directions, avoid_directions)
       IN  IF choices = {}
           THEN Raise("IndexError")
           ELSE /\ \E direction \in choices :
                     /\ new_position' = take_step(current_pos, direction)
                     /\ iter_log' = Resolved(AfterAttempt,
                                             Drawn(iter_log, direction))
                /\ pc' = AfterAttempt
                /\ UNCHANGED <<error, tested_directions>>
    /\ UNCHANGED <<Config, walk_output, step, start_pos, current_pos,
                   iter_grid, commits, last_commit>>

\* find_new_path, lines 173-177 and 187: look up the first attempt.
\* tested_directions is a local of find_new_path: it is gone (here: empty)
\* once find_new_path has returned.
FindNewPath ==
    /\ pc = "find_new_path"
    /\ \E ok \in Access(walk_output, new_position.position) :
         IF ~ok
         THEN Raise("OutOfExtent")
         ELSE /\ IF cell_visited(walk_output, new_position.position)
                 THEN /\ tested_directions' = {new_position.direction}
                      /\ iter_log' = Examined(iter_log)
                      /\ pc' = "while"
                 ELSE /\ tested_directions' = {}
                      /\ iter_log' = EmptyLog
                      /\ pc' = "commit"
              /\ UNCHANGED <<error, new_position>>
    /\ UNCHANGED <<Config, walk_output, step, start_pos, current_pos,
                   iter_grid, commits, last_commit>>

\* find_new_path, lines 181-187: the attempt is visited and directions are
\* left; draw another one and look it up.
Retry ==
    /\ pc = "while"
    /\ ~walker_is_stuck(tested_directions, num_directions)
    /\ LET choices == Selectable(num_directions, tested_directions)
       IN  IF choices = {}
           THEN Raise("IndexError")
           ELSE \E direction \in choices :
                  LET attempt == take_step(current_pos, direction)
                  IN  \E ok \in Access(walk_output, attempt.position) :
                        IF ~ok
                        THEN Raise("OutOfExtent")
                        ELSE /\ new_position' = attempt
                             /\ IF cell_visited(walk_output, attempt.position)
                                THEN /\ tested_directions' =
                                          tested_directions \cup {direction}
                                     /\ iter_log' =
                                          Examined(Drawn(iter_log, direction))
                                     /\ pc' = "while"
                                ELSE /\ tested_directions' = {}
                                     /\ iter_log' = EmptyLog
                                     /\ pc' = "commit"
                             /\ UNCHANGED error
    /\ UNCHANGED <<Config, walk_output, step, start_pos, current_pos,
                   iter_grid, commits, last_commit>>

\* find_new_path, lines 178-180, and random_walk, lines 267-272: every
\* direction was tested; GetOutOfLoop is raised and caught, the current cell
\* is marked 3 and the raster is returned.
GetOutOfLoop ==
    /\ pc = "while"
    /\ walker_is_stuck(tested_directions, num_directions)
    /\ walk_output' = Put(walk_output, StuckCell(current_pos, new_position), 3)
    /\ pc' = "Stuck"
    /\ UNCHANGED <<Config, step, start_pos, current_pos, new_position,
                   tested_directions, error, iter_grid, commits,
                   last_commit, iter_log>>

\* Lines 256-265: add one to the cell of the attempt and move there.
Commit ==
    /\ pc = "commit"
    /\ \E ok \in Access(walk_output, new_position.position) :
         IF ~ok
         THEN /\ Raise("OutOfExtent")
              /\ UNCHANGED <<walk_output, current_pos, step, commits,
                             last_commit>>
         ELSE /\ walk_output' =
                   Put(walk_output, new_position.position,
                       Visited(get(walk_output, new_position.position)))
              /\ commits' = AddCommit(commits, new_position.position)
              /\ last_commit' = new_position.position
              /\ current_pos' = new_position.position
              /\ step' = step + 1
              /\ pc' = "for"
              /\ UNCHANGED <<error, new_position, tested_directions,
                             iter_log>>
    /\ UNCHANGED <<Config, start_pos, iter_grid>>

\* Lines 241 and 272: range(steps + 1) is exhausted; return the raster.
LoopExit ==
    /\ pc = "for"
    /\ ~InRange(step, steps)
    /\ pc' = "Completed"
    /\ UNCHANGED <<Config, walk_output, step, start_pos, current_pos,
                   new_position, tested_directions, error, iter_grid, commits,
                   last_commit, iter_log>>

Next ==
    \/ Start
    \/ TakeStep
    \/ Redraw
    \/ FindNewPath
    \/ Retry
    \/ GetOutOfLoop
    \/ Commit
    \/ LoopExit

Spec == Init /\ [][Next]_vars

-----------------------------------------------------------------------------
(* Properties *)

RECURSIVE SumOver(_, _)
SumOver(f, S) ==
    IF S = {} THEN 0
    ELSE LET x == CHOOSE y \in S : TRUE
         IN  f[x] + SumOver(f, S \ {x})

\* Commits so far: the seeding of the start cell and every later visit.
TotalCommits == SumOver(commits, DOMAIN commits)

Terminal == pc \in {"Completed", "Stuck", "Error"}
ValidDirections == num_directions \in {4, 8}
WellFormed == ValidDirections /\ steps >= 0
ZeroEntry == \A p \in DOMAIN entry_grid : entry_grid[p] = 0

\* The raster has exactly the cells of the extent 0..max_row x 0..max_col
\* that boundary names.
Covered == DOMAIN entry_grid = Cells(boundary)
Neighbours(position) ==
    {take_step(position, d).position : d \in 0..(num_directions - 1)}

\* find_new_path has looked up an attempt that lies outside the extent.
ReadOutside ==
    /\ ~revisit
    /\ pc \in {"while", "commit"}
    /\ new_position.position \notin Cells(boundary)

\* C1: every committed position and every value of the walker's current
\* position lies inside the extent, 0 <= row <= max_row, 0 <= col <= max_col.
C1_BoundsInvariant ==
    ValidDirections =>
        /\ current_pos # NoPos => current_pos \in Cells(boundary)
        /\ \A p \in DOMAIN commits : p \in Cells(boundary)

\* C2: without revisits and from an all-zero raster no position is committed
\* twice (the seeding counts), and every cell of the raster holds what one
\* write left there: 2 at the start, 1 at a visited cell, 0 elsewhere, but
\* for the 3 written over the walker's cell when it is stuck.
C2_NoRevisit ==
    (~revisit /\ ZeroEntry /\ pc # "NotStarted") =>
        /\ \A p \in DOMAIN commits : commits[p] = 1
        /\ \A p \in DOMAIN entry_grid :
             walk_output[p] =
               IF pc = "Stuck" /\ p = current_pos THEN 3
               ELSE IF p = start_pos THEN 2
               ELSE IF p \in DOMAIN commits THEN 1
               ELSE 0

\* C2, its case: in its third iteration a walker with 8 directions has
\* attempted a cell of the raster that an earlier iteration of the walk
\* marked 1, and the attempt has just been rejected as visited.
C2_Witness ==
    /\ ~revisit /\ ZeroEntry
    /\ num_directions = 8
    /\ pc = "while"
    /\ step = 2
    /\ new_position.position \in DOMAIN entry_grid
    /\ new_position.position # start_pos
    /\ walk_output[new_position.position] = 1

\* C3: a walk that may revisit and runs to completion has made exactly
\* steps + 1 commits, the seeding included.
C3_CommitCount ==
    (revisit /\ WellFormed /\ pc = "Completed") => TotalCommits = steps + 1

\* C4: with steps = 0 the walk only seeds the start cell: at termination the
\* start cell holds 2 and is the only non-zero cell of an all-zero raster,
\* no move was attempted and the walker is at the start.
C4_ZeroBudget ==
    (steps = 0 /\ ValidDirections /\ ZeroEntry
       /\ pc \in {"Completed", "Stuck"}) =>
        /\ \A p \in DOMAIN entry_grid :
             walk_output[p] = IF p = start_pos THEN 2 ELSE 0
        /\ new_position = None
        /\ current_pos = start_pos

\* C5: a direction count other than 4 or 8 is rejected before the walk
\* begins: the walk ends in an error and the raster is as it was on entry.
C5_InvalidDirectionCount ==
    ~ValidDirections =>
        /\ walk_output = entry_grid
        /\ Terminal => pc = "Error"

\* C6: a negative step budget is rejected before the walk begins: the walk
\* ends in an error, not Completed, and no cell is written.
C6_NegativeStepBudget ==
    steps < 0 =>
        /\ walk_output = entry_grid
        /\ Terminal => pc = "Error"

\* C7: a walk under a well-formed configuration, on a raster that covers
\* the extent, runs at most steps + 1 iterations and never ends in an error:
\* no exception escapes and the raster is never accessed outside the extent.
C7_SuccessfulTermination ==
    (WellFormed /\ Covered) =>
        /\ pc # "Error"
        /\ DOMAIN walk_output = Cells(boundary)
        /\ ~ReadOutside
        /\ step <= steps + 1

\* C8: when the walker is stuck, 3 is written at its current position, which
\* is the position of the latest commit (the start cell if there was no
\* move); every other cell holds what it held when the iteration began, and
\* the failed iteration has committed nothing.
C8_StuckMarking ==
    pc = "Stuck" =>
        /\ walk_output[current_pos] = 3
        /\ current_pos = last_commit
        /\ TotalCommits = 1 => current_pos = start_pos
        /\ \A p \in DOMAIN iter_grid \ {current_pos} :
             walk_output[p] = iter_grid[p]
        /\ \A p \in DOMAIN walk_output \ DOMAIN iter_grid : walk_output[p] # 3
        /\ step = TotalCommits - 1

\* C8, its case: the walker moved onto the one unvisited cell of the 3x3
\* raster and is stuck there.
C8_Witness ==
    /\ pc = "Stuck"
    /\ boundary = <<2, 2>>
    /\ Covered
    /\ current_pos # start_pos
    /\ new_position.position # current_pos

\* C9: on the 1x1 raster with 4 directions and no revisits, for a step
\* budget of 0 or more (5 in the specification's scenario; the first
\* iteration is the same for each), the start cell is seeded with 2, the
\* first iteration ends in Stuck, no move is committed and the final raster
\* is [[3]].
C9_OneByOne ==
    (boundary = <<0, 0>> /\ num_directions = 4 /\ ~revisit /\ steps >= 0
       /\ ZeroEntry /\ pc # "NotStarted") =>
        /\ TotalCommits = 1
        /\ walk_output[<<0, 0>>] \in {2, 3}
        /\ Terminal =>
             /\ pc = "Stuck"
             /\ step = 0
             /\ walk_output = (<<0, 0>> :> 3)

\* The walker starts at the centre of the 3x3 raster, may not revisit, has 8
\* directions, and every neighbour was visited before the walk.
Saturated ==
    /\ boundary = <<2, 2>>
    /\ Covered
    /\ num_directions = 8
    /\ ~revisit
    /\ steps >= 0
    /\ start_pos = <<1, 1>>
    /\ \A p \in Neighbours(<<1, 1>>) : entry_grid[p] > 0

\* C10: on the saturated 3x3 raster the first iteration signals Stuck: the
\* walk never completes, fails or commits a move, no neighbour changes, and
\* the centre ends with 3.
C10_SaturatedStuck ==
    Saturated =>
        /\ pc \in {"for", "find_new_path", "while", "Stuck"}
        /\ step = 0
        /\ TotalCommits = 1
        /\ current_pos = <<1, 1>>
        /\ \A p \in Neighbours(<<1, 1>>) : walk_output[p] = entry_grid[p]
        /\ pc = "Stuck" => walk_output[<<1, 1>>] = 3

\* C10, its case: the walker is stuck at the centre after all 8 directions
\* were tested.
C10_Witness ==
    /\ Saturated
    /\ pc = "Stuck"
    /\ tested_directions = 0..7

\* C11: a walk that may revisit is never stuck, and under a well-formed
\* configuration, on a raster that covers the extent, it always ends
\* Completed, after all its iterations.
C11_RevisitCompletes ==
    (revisit /\ WellFormed /\ Covered) =>
        /\ pc # "Stuck"
        /\ Terminal => (pc = "Completed" /\ step = steps + 1)

\* C13: when the walker is stuck, every direction of the configuration leads
\* from its position to a position outside the extent or to a cell whose
\* value is greater than 0.
C13_StuckSoundness ==
    pc = "Stuck" =>
        \A p \in Neighbours(current_pos) :
            \/ p \notin Cells(boundary)
            \/ get(walk_output, p) > 0

\* C13, its case: the walker is stuck inside the extent, at a cell it moved
\* to, with visited neighbours all around it.
C13_Witness ==
    /\ pc = "Stuck"
    /\ current_pos \in Cells(boundary)
    /\ current_pos # start_pos
    /\ Neighbours(current_pos) \subseteq Cells(boundary)

\* C14: without revisits and on a raster that covers the extent, the attempt
\* find_new_path returns is inside the extent and its cell holds 0, and
\* find_new_path reads the raster only inside the extent: no read fails and
\* none reaches storage outside it.
C14_ResolvedInExtent ==
    (~revisit /\ ValidDirections /\ Covered) =>
        /\ pc = "commit" =>
             /\ new_position.position \in Cells(boundary)
             /\ walk_output[new_position.position] = 0
        /\ DOMAIN walk_output = Cells(boundary)
        /\ ~ReadOutside
        /\ error # "OutOfExtent"

\* C15: without revisits no direction is drawn twice in one iteration: the
\* number of draws equals the number of distinct directions drawn.
C15_UnifiedExclusion ==
    ~revisit => iter_log.draws = Cardinality(iter_log.attempted)

\* C16: one call of find_new_path examines at most num_directions attempts,
\* each with a direction of its own; while it has not given up, it has
\* examined fewer than num_directions.
C16_BoundedRetries ==
    /\ iter_log.examined <= num_directions
    /\ pc \in {"while", "Stuck"} =>
         /\ iter_log.examined = Cardinality(tested_directions)
         /\ tested_directions \subseteq iter_log.attempted
    /\ (pc = "while" /\ ~walker_is_stuck(tested_directions, num_directions)) =>
         iter_log.examined < num_directions

\* C16, its case: find_new_path examined one attempt per direction from a
\* cell the walker had moved to, and gave up.
C16_Witness ==
    /\ pc = "Stuck"
    /\ iter_log.examined = num_directions
    /\ Cardinality(iter_log.attempted) = num_directions
    /\ current_pos # start_pos

\* C17: with 4 or 8 directions take_step never fails: random.choice is never
\* handed an empty list (neither for the re-draw after an out-of-bounds
\* attempt nor for a retry of find_new_path), no ValueError or IndexError
\* ends the walk, and every direction drawn lies in 0..num_directions - 1.
C17_TakeStepNeverFails ==
    ValidDirections =>
        /\ error \notin {"IndexError", "ValueError"}
        /\ pc = "redraw" =>
             Selectable(num_directions,
                        avoid_boundary(new_position, boundary)) # {}
        /\ (pc = "while"
              /\ ~walker_is_stuck(tested_directions, num_directions)) =>
             Selectable(num_directions, tested_directions) # {}
        /\ new_position # None =>
             new_position.direction \in 0..(num_directions - 1)
        /\ iter_log.attempted \subseteq 0..(num_directions - 1)

\* C17, its case: from a corner of the raster the walker attempted the
\* diagonal that leaves the extent on both axes, so avoid_boundary forbids 5
\* of the 8 directions and the re-draw is made from the 3 that are left.
C17_Witness ==
    /\ pc = "redraw"
    /\ num_directions = 8
    /\ current_pos \in Cells(boundary)
    /\ Cardinality(avoid_boundary(new_position, boundary)) = 5

\* C18: an iteration that commits changes exactly one cell, the position it
\* resolved, whose value goes up by 1; every other cell is as it was when
\* the iteration began, and the walker stands on the resolved position.
\* Until the commit, drawing, rejecting and retrying write nothing.
C18_CommitEffect ==
    /\ (pc \in {"for", "Completed"} /\ step > 0) =>
         /\ current_pos = new_position.position
         /\ current_pos = last_commit
         /\ DOMAIN walk_output = DOMAIN iter_grid \cup {current_pos}
         /\ \A p \in DOMAIN walk_output :
              walk_output[p] =
                IF p = current_pos
                THEN get(iter_grid, p) + 1 ELSE iter_grid[p]
    /\ pc \in {"redraw", "find_new_path", "while", "commit", "Error"} =>
         /\ walk_output = iter_grid
         /\ current_pos = last_commit

\* C18, its case: a walk that may revisit stepped away from the start cell
\* and back onto it, raising its 2 to 3.
C18_Witness ==
    /\ revisit /\ ZeroEntry
    /\ pc = "for"
    /\ step = 2
    /\ current_pos = start_pos
    /\ walk_output[current_pos] = 3
    /\ iter_grid[current_pos] = 2

\* The directions that move further along an axis on which position has
\* left the extent, by the offsets of take_step.
Outward(position, region) ==
    {d \in 0..7 :
        \/ position[1] > region[1] /\ Delta(d)[1] > 0
        \/ position[1] < 0         /\ Delta(d)[1] < 0
        \/ position[2] > region[2] /\ Delta(d)[2] > 0
        \/ position[2] < 0         /\ Delta(d)[2] < 0}

\* C19: for every attempt avoid_boundary returns the attempted direction and
\* the directions whose row (column) offset points the way the attempt left
\* the extent: N, NE, NW above max_row, S, SE, SW below 0, E, NE, SE beyond
\* max_col, W, SW, NW below 0, and nothing else.  For an attempt made from
\* inside the extent every forbidden direction leads out of the extent.
\* Raster and position are as they were.
C19_AvoidBoundaryRule ==
    new_position # None =>
        /\ avoid_boundary(new_position, boundary) =
             {new_position.direction}
               \cup Outward(new_position.position, boundary)
        /\ (pc = "redraw" /\ current_pos \in Cells(boundary)) =>
             /\ \A d \in avoid_boundary(new_position, boundary) :
                  out_of_bounds(take_step(current_pos, d).position, boundary)
             /\ walk_output = iter_grid
             /\ current_pos = last_commit

\* C19, its case: the walker attempted the diagonal out of a corner and left
\* the extent below row 0 and beyond max_col at once.
C19_Witness ==
    /\ pc = "redraw"
    /\ current_pos \in Cells(boundary)
    /\ new_position.position[1] < 0
    /\ new_position.position[2] > boundary[2]

\* C20: without revisits and from an all-zero raster that covers the extent
\* every cell of the raster holds 0, 1, 2 or 3; 2 is found only at the start
\* cell; and a cell holds 3 exactly when the walk has ended Stuck: then it
\* is the one cell the walker stands on.
C20_Sentinels ==
    (~revisit /\ ZeroEntry /\ Covered /\ pc # "NotStarted") =>
        /\ \A p \in Cells(boundary) : walk_output[p] \in 0..3
        /\ \A p \in Cells(boundary) : walk_output[p] = 2 => p = start_pos
        /\ (\E p \in Cells(boundary) : walk_output[p] = 3) <=> pc = "Stuck"
        /\ pc = "Stuck" =>
             \A p \in Cells(boundary) :
                 walk_output[p] = 3 <=> p = current_pos

=============================================================================
